---- MODULE Spec2Model ----
(***************************************************************************)
(* The rule trie of src/backend/trie_engine.c: one process-wide root       *)
(* pointer, nodes allocated with calloc, and the four exported operations  *)
(* init_trie, insert_rule, search_rule and free_trie.                      *)
(*                                                                         *)
(* Memory is modelled as a heap of MaxNodes node cells.  A C string is a   *)
(* sequence of character codes (ASCII); the null pointer passed as a rule  *)
(* is NullRule.  Allocation can fail: every call draws the number of its    *)
(* allocation requests (calloc, strdup) that succeed before one fails; a   *)
(* call returns at its first failed request, so this covers every pattern  *)
(* of failures.  calloc also fails when the heap is full.                  *)
(***************************************************************************)
EXTENDS Integers, Sequences, FiniteSets, TLC

\* ---- bounds of the model ----
MaxLen == 2        \* longest rule string passed to insert_rule / search_rule
MaxNodes == 3      \* node cells the heap can hold at once

\* ---- program constants ----
NumChildren == 26  \* struct TrieNode: children[26]
NULL == 0          \* the null node pointer

\* character codes used by the inputs: 'a', 'B', '1'
Chars == {97, 66, 49}

Addr == 1..MaxNodes
Idx == 0..(NumChildren - 1)

RECURSIVE SeqsUpTo(_)
SeqsUpTo(n) ==
    IF n = 0 THEN {<<>>}
    ELSE LET shorter == SeqsUpTo(n - 1)
         IN  shorter \cup {Append(s, c) : s \in {t \in shorter : Len(t) = n - 1}, c \in Chars}

\* every C string over Chars of length at most MaxLen
Strings == SeqsUpTo(MaxLen)

\* the null pointer as a rule argument: the one value that is not a C string
NullRule == <<0>>
Rules == Strings \cup {NullRule}

\* ---- <ctype.h>, "C" locale ----
\* isalpha taking the lower-case letters only
isalpha_lower(c) == c >= 97 /\ c <= 122

isalpha(c) == (c >= 65 /\ c <= 90) \/ (c >= 97 /\ c <= 122)
tolower(c) == IF c >= 65 /\ c <= 90 THEN c + 32 ELSE c

\* ---- state ----
VARIABLES
    root,         \* static TrieNode* root
    mem,          \* contents of the node cells
    allocated,    \* the cells currently allocated
    pc,           \* "running", or "exited" after exit(1)
    last,         \* the call made last: its name, the rule insert_rule copied
                  \* (<<>> when the copy failed), the value returned by
                  \* search_rule, the allocation that failed, the free() calls
                  \* it made
    inserted,     \* normalized rules of the insert_rule calls that returned without
                  \* an allocation failure since the last free_trie
    everInserted, \* insert_rule has been called at least once
    tornDown,     \* free_trie was called and no insert_rule since
    dropped,      \* the rules the trie held when free_trie was called, until the
                  \* next insert_rule
    walked        \* the non-empty prefixes the walks of insert_rule went through
                  \* since the last free_trie

vars == <<root, mem, allocated, pc, last, inserted, everInserted, tornDown, dropped,
          walked>>

\* calloc(1, sizeof(TrieNode)): all children NULL, flag 0
ZeroNode == [children |-> [i \in Idx |-> NULL], is_end_of_rule |-> 0]

Min(S) == CHOOSE x \in S : \A y \in S : x <= y

\* the successful allocation requests one call can see: a node for each free
\* cell and the strdup copy
Budgets == 0..(MaxNodes - Cardinality(allocated) + 1)

\* the machine a call runs on: the trie, the number of allocation requests
\* that will succeed, whether exit(1) was called, which allocation failed, the
\* number of free() calls made, whether one of them was given a cell that is
\* not allocated
Machine(avail) ==
    [root |-> root, mem |-> mem, allocated |-> allocated,
     avail |-> avail, exited |-> FALSE, oom |-> "no",
     freed |-> 0, fault |-> FALSE]

\* create_node with the cell left uncleared (malloc for calloc): the flag of the
\* new node holds a stale 1
create_node_uncleared(m) ==
    IF m.avail = 0 \/ m.allocated = Addr
    THEN [m |-> [m EXCEPT !.oom = "calloc"], node |-> NULL]
    ELSE LET a == Min(Addr \ m.allocated)
         IN  [m |-> [m EXCEPT !.allocated = @ \cup {a},
                              !.mem[a] = [ZeroNode EXCEPT !.is_end_of_rule = 1],
                              !.avail = @ - 1],
              node |-> a]

\* create_node: a zeroed cell, or NULL when calloc fails
create_node(m) ==
    IF m.avail = 0 \/ m.allocated = Addr
    THEN [m |-> [m EXCEPT !.oom = "calloc"], node |-> NULL]
    ELSE LET a == Min(Addr \ m.allocated)
         IN  [m |-> [m EXCEPT !.allocated = @ \cup {a},
                              !.mem[a] = ZeroNode,
                              !.avail = @ - 1],
              node |-> a]

\* init_trie without the root == NULL test: a new root on every call
init_trie_fresh(m) ==
    LET r == create_node(m)
    IN  IF r.node = NULL
        THEN [r.m EXCEPT !.exited = TRUE]
        ELSE [r.m EXCEPT !.root = r.node]

\* init_trie: create the root if there is none; exit(1) if that fails
init_trie(m) ==
    IF m.root = NULL
    THEN LET r == create_node(m)
         IN  IF r.node = NULL
             THEN [r.m EXCEPT !.exited = TRUE]
             ELSE [r.m EXCEPT !.root = r.node]
    ELSE m

\* the loop ending at the first character that is not a letter
RECURSIVE normalize_loop_stop(_, _, _)
normalize_loop_stop(str, read, write) ==
    IF read > Len(str) THEN write
    ELSE IF isalpha(str[read])
         THEN normalize_loop_stop(str, read + 1, Append(write, tolower(str[read])))
         ELSE write

\* normalize_string: the read/write loop over the buffer
RECURSIVE normalize_loop(_, _, _)
normalize_loop(str, read, write) ==
    IF read > Len(str) THEN write
    ELSE IF isalpha(str[read])
         THEN normalize_loop(str, read + 1, Append(write, tolower(str[read])))
         ELSE normalize_loop(str, read + 1, write)

normalize_string(str) ==
    IF str = NullRule THEN str ELSE normalize_loop(str, 1, <<>>)

\* the terminal mark forgotten
mark_end_none(m, current) == m

\* current->is_end_of_rule = 1
mark_end(m, current) == [m EXCEPT !.mem[current].is_end_of_rule = 1]

\* the walk clearing the flag of every node it passes through
RECURSIVE insert_walk_clearing(_, _, _, _)
insert_walk_clearing(m, current, normalized, i) ==
    IF i > Len(normalized) THEN mark_end(m, current)
    ELSE LET index == normalized[i] - 97
             mc == [m EXCEPT !.mem[current].is_end_of_rule = 0]
         IN  IF mc.mem[current].children[index] = NULL
             THEN LET r == create_node(mc)
                  IN  IF r.node = NULL
                      THEN r.m
                      ELSE insert_walk_clearing(
                               [r.m EXCEPT !.mem[current].children[index] = r.node],
                               r.node, normalized, i + 1)
             ELSE insert_walk_clearing(mc, mc.mem[current].children[index],
                                       normalized, i + 1)

\* the walk creating a node at every step, over the child already there
RECURSIVE insert_walk_realloc(_, _, _, _)
insert_walk_realloc(m, current, normalized, i) ==
    IF i > Len(normalized) THEN mark_end(m, current)
    ELSE LET index == normalized[i] - 97
             r == create_node(m)
         IN  IF r.node = NULL
             THEN r.m
             ELSE insert_walk_realloc(
                      [r.m EXCEPT !.mem[current].children[index] = r.node],
                      r.node, normalized, i + 1)

\* the walk setting the terminal mark on every node as it goes
RECURSIVE insert_walk_marking(_, _, _, _)
insert_walk_marking(m, current, normalized, i) ==
    IF i > Len(normalized) THEN mark_end(m, current)
    ELSE LET index == normalized[i] - 97
         IN  IF m.mem[current].children[index] = NULL
             THEN LET r == create_node(m)
                  IN  IF r.node = NULL
                      THEN r.m
                      ELSE insert_walk_marking(
                               mark_end([r.m EXCEPT !.mem[current].children[index] = r.node],
                                        r.node),
                               r.node, normalized, i + 1)
             ELSE insert_walk_marking(m, m.mem[current].children[index],
                                      normalized, i + 1)

\* the walk of insert_rule from position i of the normalized rule
RECURSIVE insert_walk(_, _, _, _)
insert_walk(m, current, normalized, i) ==
    IF i > Len(normalized) THEN mark_end(m, current)
    ELSE LET index == normalized[i] - 97
         IN  IF m.mem[current].children[index] = NULL
             THEN LET r == create_node(m)
                  IN  IF r.node = NULL
                      THEN r.m
                      ELSE insert_walk([r.m EXCEPT !.mem[current].children[index] = r.node],
                                       r.node, normalized, i + 1)
             ELSE insert_walk(m, m.mem[current].children[index], normalized, i + 1)

\* strdup(rule): the copy, or NULL when the allocation fails; the copy is
\* released before the call returns and takes no node cell
strdup(m) ==
    IF m.avail = 0
    THEN [m |-> [m EXCEPT !.oom = "strdup"], ok |-> FALSE]
    ELSE [m |-> [m EXCEPT !.avail = @ - 1], ok |-> TRUE]

\* insert_rule(rule)
insert_rule(m, rule) ==
    IF rule = NullRule THEN m
    ELSE LET m1 == IF m.root = NULL THEN init_trie(m) ELSE m
         IN  IF m1.exited THEN m1
             ELSE IF rule = <<>> THEN mark_end(m1, m1.root)
             ELSE LET d == strdup(m1)
                      normalized == normalize_string(rule)
                  IN  IF ~d.ok THEN d.m
                      ELSE IF normalized = <<>> THEN d.m
                      ELSE insert_walk(d.m, d.m.root, normalized, 1)

\* search_rule returning 1 for every path it can walk, terminal or not
search_result_any(m, current) == 1

\* the value search_rule returns at the end of its walk
search_result(m, current) == m.mem[current].is_end_of_rule

\* the walk of search_rule from position i of the normalized rule
RECURSIVE search_walk(_, _, _, _)
search_walk(m, current, normalized, i) ==
    IF i > Len(normalized) THEN search_result(m, current)
    ELSE LET index == normalized[i] - 97
         IN  IF m.mem[current].children[index] = NULL THEN 0
             ELSE search_walk(m, m.mem[current].children[index], normalized, i + 1)

\* search_rule creating the root when there is none, as insert_rule does
search_rule_autoinit(m, rule) ==
    IF rule = NullRule THEN [m |-> m, ret |-> 0]
    ELSE LET m1 == IF m.root = NULL THEN init_trie(m) ELSE m
         IN  IF m1.exited THEN [m |-> m1, ret |-> 0]
             ELSE IF rule = <<>> THEN [m |-> m1, ret |-> m1.mem[m1.root].is_end_of_rule]
             ELSE LET d == strdup(m1)
                      normalized == normalize_string(rule)
                  IN  IF ~d.ok THEN [m |-> d.m, ret |-> 0]
                      ELSE IF normalized = <<>> THEN [m |-> d.m, ret |-> 0]
                      ELSE [m |-> d.m, ret |-> search_walk(d.m, d.m.root, normalized, 1)]

\* search_rule(rule): the machine it leaves and the value it returns
search_rule(m, rule) ==
    IF rule = NullRule \/ m.root = NULL THEN [m |-> m, ret |-> 0]
    ELSE IF rule = <<>> THEN [m |-> m, ret |-> m.mem[m.root].is_end_of_rule]
    ELSE LET d == strdup(m)
             normalized == normalize_string(rule)
         IN  IF ~d.ok THEN [m |-> d.m, ret |-> 0]
             ELSE IF normalized = <<>> THEN [m |-> d.m, ret |-> 0]
             ELSE [m |-> d.m, ret |-> search_walk(d.m, d.m.root, normalized, 1)]

\* free(node): the cell is released; its contents are no longer meaningful
free(m, node) ==
    IF node \in m.allocated
    THEN [m EXCEPT !.allocated = @ \ {node}, !.mem[node] = ZeroNode,
                   !.freed = @ + 1]
    ELSE [m EXCEPT !.freed = @ + 1, !.fault = TRUE]

\* free_trie_node: release the children (the loop over i, which passes over
\* the NULL slots), then the node
RECURSIVE free_trie_node(_, _)
RECURSIVE free_children(_, _, _)
free_children(m, node, i) ==
    LET rest == {j \in Idx : j >= i /\ m.mem[node].children[j] /= NULL}
    IN  IF rest = {} THEN m
        ELSE free_children(free_trie_node(m, m.mem[node].children[Min(rest)]),
                           node, Min(rest) + 1)

free_trie_node(m, node) ==
    IF node = NULL THEN m
    ELSE free(free_children(m, node, 0), node)

\* free_trie releasing the children of the root but not the root
free_trie_children_only(m) ==
    IF m.root /= NULL
    THEN free_children(m, m.root, 0)
    ELSE m

\* free_trie setting up a new root after the release
free_trie_reset(m) ==
    LET f == IF m.root /= NULL THEN free_trie_node(m, m.root) ELSE m
        a == Min(Addr \ f.allocated)
    IN  [f EXCEPT !.root = a, !.allocated = @ \cup {a}, !.mem[a] = ZeroNode]

\* free_trie leaving the root pointer as it was after the release
free_trie_dangling(m) ==
    IF m.root /= NULL
    THEN free_trie_node(m, m.root)
    ELSE m

\* free_trie
free_trie(m) ==
    IF m.root /= NULL
    THEN [free_trie_node(m, m.root) EXCEPT !.root = NULL]
    ELSE m

\* ---- what can be observed of the trie ----

\* the normalized forms of the rules
Norms == {normalize_string(s) : s \in Strings}

\* the node at the end of path p from node cur, NULL if the path leaves the trie
RECURSIVE NodeAt(_, _)
NodeAt(cur, p) ==
    IF cur = NULL \/ p = <<>> THEN cur
    ELSE NodeAt(mem[cur].children[Head(p) - 97], Tail(p))

\* the paths that lead to a node, and those that lead to a terminal node
NodeSet == {p \in Norms : NodeAt(root, p) /= NULL}
TerminalSet == {p \in NodeSet : mem[NodeAt(root, p)].is_end_of_rule = 1}

\* the value search_rule(s) returns in this state when its strdup succeeds
Found(s) == search_rule(Machine(1), s).ret

\* the observable state: nodes, terminal flags, search results
View == [nodes |-> NodeSet, terminal |-> TerminalSet,
         found |-> {s \in Strings : Found(s) = 1}]

\* the last call was insert_rule(s) for a string s, and it returned without
\* any allocation failure
InsertCompleted(l) ==
    l.op = "insert_rule" /\ l.arg \in Strings /\ l.oom = "no"

NoLetters(s) == normalize_string(s) = <<>>

\* the prefixes of rule n that have a node already
ExistingDepth(n) ==
    Cardinality({j \in 1..Len(n) : NodeAt(root, SubSeq(n, 1, j)) /= NULL})

\* the prefixes the walk of insert_rule(rule) goes through when avail allocation
\* requests succeed: the root (if absent) and the copy take one request each,
\* then the walk descends through the existing nodes and creates one node per
\* request left, as far as the heap has free cells
Walk(rule, avail) ==
    IF rule = NullRule \/ rule = <<>> THEN {}
    ELSE LET rootCost == IF root = NULL THEN 1 ELSE 0
             n == normalize_string(rule)
             left == avail - rootCost - 1
             cells == MaxNodes - Cardinality(allocated) - rootCost
             grants == IF left < cells THEN left ELSE cells
             reach == ExistingDepth(n) + grants
             depth == IF reach < Len(n) THEN reach ELSE Len(n)
         IN  IF left < 0 THEN {}
             ELSE {SubSeq(n, 1, j) : j \in 1..depth}

\* ---- the calls ----
Install(m) ==
    /\ root' = m.root
    /\ mem' = m.mem
    /\ allocated' = m.allocated
    /\ pc' = IF m.exited THEN "exited" ELSE "running"

Call(op, arg, ret, m) ==
    [op |-> op, arg |-> arg, ret |-> ret, oom |-> m.oom,
     freed |-> m.freed, fault |-> m.fault]

Init ==
    /\ root = NULL
    /\ mem = [a \in Addr |-> ZeroNode]
    /\ allocated = {}
    /\ pc = "running"
    /\ last = [op |-> "none", arg |-> <<>>, ret |-> 0, oom |-> "no",
               freed |-> 0, fault |-> FALSE]
    /\ inserted = {}
    /\ everInserted = FALSE
    /\ tornDown = FALSE
    /\ dropped = {}
    /\ walked = {}

CallInitTrie ==
    /\ pc = "running"
    /\ \E avail \in 0..1 :
          \E m \in {init_trie(Machine(avail))} :
              /\ Install(m)
              /\ last' = Call("init_trie", <<>>, 0, m)
    /\ UNCHANGED <<inserted, everInserted, tornDown, dropped, walked>>

CallInsertRule ==
    /\ pc = "running"
    /\ \E rule \in Rules, avail \in Budgets :
          \E m \in {insert_rule(Machine(avail), rule)} :
              /\ Install(m)
              /\ last' = Call("insert_rule",
                              IF m.oom = "strdup" THEN <<>> ELSE rule, 0, m)
              /\ inserted' = IF rule = NullRule \/ m.oom /= "no" THEN inserted
                             ELSE inserted \cup {normalize_string(rule)}
              /\ everInserted' = (everInserted \/ rule /= NullRule)
              /\ tornDown' = (tornDown /\ rule = NullRule)
              /\ dropped' = IF rule = NullRule THEN dropped ELSE {}
              /\ walked' = walked \cup Walk(rule, avail)

CallSearchRule ==
    /\ pc = "running"
    /\ \E rule \in Rules, avail \in 0..1 :
          \E r \in {search_rule(Machine(avail), rule)} :
              /\ Install(r.m)
              /\ last' = Call("search_rule", <<>>, r.ret, r.m)
    /\ UNCHANGED <<inserted, everInserted, tornDown, dropped, walked>>

CallFreeTrie ==
    /\ pc = "running"
    /\ \E m \in {free_trie(Machine(0))} :
           /\ Install(m)
           /\ last' = Call("free_trie", <<>>, 0, m)
    /\ inserted' = {}
    /\ tornDown' = TRUE
    /\ dropped' = TerminalSet
    /\ walked' = {}
    /\ UNCHANGED everInserted

Next ==
    \/ CallInitTrie
    \/ CallInsertRule
    \/ CallSearchRule
    \/ CallFreeTrie

Spec == Init /\ [][Next]_vars

\* ---- the claims ----

\* C1: after an insert_rule(s) that completed without allocation failure,
\* search_rule(s) returns true, for every string s.
C1_InsertThenSearchFinds ==
    (pc = "running" /\ InsertCompleted(last)) => Found(last.arg) = 1

\* C2: search_rule(s) returns true only if an insert_rule(t) with
\* normalize(t) = normalize(s) was performed since the last teardown; a proper
\* prefix of the inserted rules is not found.
C2_FoundOnlyIfInserted ==
    pc = "running" =>
        \A s \in Strings, avail \in 0..1 :
            search_rule(Machine(avail), s).ret = 1 => normalize_string(s) \in inserted

\* C2 witness: only "aa" was inserted, its prefix "a" has a node, and a search
\* has just told the two apart.
C2_Witness ==
    /\ pc = "running"
    /\ last.op = "search_rule"
    /\ inserted = {<<97, 97>>}
    /\ NodeAt(root, <<97>>) /= NULL
    /\ Found(<<97>>) = 0
    /\ Found(<<97, 97>>) = 1

\* C3: after insert_rule(s), search_rule(t) returns true for every t with
\* normalize(t) = normalize(s), the strings that normalize to empty included.
C3_NoiseInsensitive ==
    (pc = "running" /\ InsertCompleted(last)) =>
        \A t \in Strings :
            normalize_string(t) = normalize_string(last.arg) => Found(t) = 1

\* C4: inserting a non-empty string without letters has the effect of inserting
\* the empty string: the same trie, the root terminal, no node added.
C4_NoLettersAsEmpty ==
    [][(pc' = "running" /\ InsertCompleted(last') /\ last'.arg /= <<>>
            /\ NoLetters(last'.arg))
        => LET e == insert_rule(Machine(MaxLen + 2), <<>>)
           IN  /\ root' = e.root
               /\ mem' = e.mem
               /\ allocated' = e.allocated
               /\ mem'[root'].is_end_of_rule = 1]_vars

\* C5: before any insert_rule call search_rule returns false for every string,
\* whether the root is absent or was created by init_trie.
C5_NotFoundBeforeInsert ==
    (pc = "running" /\ ~everInserted) =>
        /\ \A s \in Strings, avail \in 0..1 : search_rule(Machine(avail), s).ret = 0
        /\ last.op = "search_rule" => last.ret = 0

\* C5 witness: the trie was initialised by init_trie, nothing was inserted, and
\* a search has returned false.
C5_Witness ==
    /\ pc = "running"
    /\ ~everInserted
    /\ root /= NULL
    /\ last.op = "search_rule"
    /\ last.ret = 0

\* C6: after free_trie and until the next insert_rule, search_rule returns false
\* for every string, and free_trie leaves no node: the root is absent.
C6_NotFoundAfterFree ==
    /\ (pc = "running" /\ tornDown) =>
           /\ \A s \in Strings, avail \in 0..1 : search_rule(Machine(avail), s).ret = 0
           /\ last.op = "search_rule" => last.ret = 0
    /\ last.op = "free_trie" => (root = NULL /\ allocated = {})

\* C6 witness: the trie held the rule "a" when it was torn down, and a search
\* made after the teardown has returned false.
C6_Witness ==
    /\ pc = "running"
    /\ tornDown
    /\ <<97>> \in dropped
    /\ root = NULL
    /\ last.op = "search_rule"
    /\ last.ret = 0

\* C7: search_rule leaves the root pointer, the set of nodes and every flag as
\* they were.
C7_SearchNeverMutates ==
    [][last'.op = "search_rule" => UNCHANGED <<root, mem, allocated>>]_vars

\* C7 witness: a search in a populated trie has returned true.
C7_Witness ==
    /\ pc = "running"
    /\ last.op = "search_rule"
    /\ last.ret = 1
    /\ Cardinality(allocated) >= 2

\* C8: insert_rule(s) followed by insert_rule(t) with normalize(t) =
\* normalize(s) leaves the nodes, the terminal flags and every search result as
\* insert_rule(s) alone left them.
C8_InsertIdempotent ==
    [][(pc' = "running" /\ InsertCompleted(last) /\ InsertCompleted(last')
            /\ normalize_string(last'.arg) = normalize_string(last.arg))
        => View' = View]_vars

\* C9: when node creation fails during insert_rule the process aborts;
\* insert_rule does not return to its caller with a path left unfinished.
C9_NodeFailureIsLoud ==
    (last.op = "insert_rule" /\ last.oom = "calloc") => pc = "exited"

\* C10: init_trie on an absent root establishes an empty trie (a root that is not
\* terminal and has no children); on a present root it changes nothing: the root
\* pointer, the nodes and their contents, hence every search result, stay.
C10_InitTrieIdempotent ==
    [][last'.op = "init_trie"
        => IF root /= NULL
           THEN UNCHANGED <<root, mem, allocated>>
           ELSE pc' = "running"
                => /\ root' /= NULL
                   /\ allocated' = allocated \cup {root'}
                   /\ mem'[root'] = ZeroNode
                   /\ NodeSet' = {<<>>}
                   /\ TerminalSet' = {}]_vars

\* C10 witness: init_trie was called on a trie holding the rule "ab", which is
\* still found.
C10_Witness ==
    /\ pc = "running"
    /\ last.op = "init_trie"
    /\ TerminalSet = {<<97, 98>>}
    /\ Found(<<97, 66>>) = 1

\* C11: search_rule("") returns false on a fresh trie; insert_rule("") makes the
\* root terminal and search_rule("") true, and it stays true through every call
\* other than free_trie.
C11_EmptyRule ==
    /\ [](/\ (pc = "running" /\ ~everInserted) => Found(<<>>) = 0
          /\ (pc = "running" /\ InsertCompleted(last) /\ last.arg = <<>>)
                => (root /= NULL /\ mem[root].is_end_of_rule = 1 /\ Found(<<>>) = 1))
    /\ [][(pc' = "running" /\ last'.op /= "free_trie" /\ Found(<<>>) = 1)
            => Found(<<>>)' = 1]_vars

\* C11 witness: the empty rule and the rule "a" are both in the trie, and a
\* search has returned true.
C11_Witness ==
    /\ pc = "running"
    /\ last.op = "search_rule"
    /\ last.ret = 1
    /\ TerminalSet = {<<>>, <<97>>}
    /\ Found(<<>>) = 1

\* toUpper of the claims: every lower-case letter of s replaced by its capital
toupper(c) == IF c >= 97 /\ c <= 122 THEN c - 32 ELSE c
ToUpper(s) == [i \in 1..Len(s) |-> toupper(s[i])]

\* every string with its toUpper
UpperCased == {<<s, ToUpper(s)>> : s \in Strings}

\* C12: in every state search_rule(s) and search_rule(toUpper(s)) return the same
\* value, for every string s.
C12_SearchIgnoresCase ==
    pc = "running" =>
        \A pair \in UpperCased, avail \in 0..1 :
            search_rule(Machine(avail), pair[1]).ret
                = search_rule(Machine(avail), pair[2]).ret

\* C12 witness: the rule "aB" is in the trie and is found as "aB" and as "AB".
C12_Witness ==
    /\ pc = "running"
    /\ last.op = "search_rule"
    /\ last.ret = 1
    /\ ToUpper(<<97, 66>>) = <<65, 66>>
    /\ Found(<<97, 66>>) = 1
    /\ Found(<<65, 66>>) = 1

\* C13: free_trie on an absent root (never created, or already torn down)
\* releases nothing and leaves the root absent, so a second free_trie changes
\* nothing.
C13_FreeTrieOnAbsentRoot ==
    [][(last'.op = "free_trie" /\ root = NULL)
        => (UNCHANGED <<root, mem, allocated>> /\ last'.freed = 0
            /\ ~last'.fault)]_vars

\* C13 witness: free_trie has returned without releasing anything, after the
\* rules of the trie had been dropped by an earlier free_trie.
C13_Witness ==
    /\ pc = "running"
    /\ last.op = "free_trie"
    /\ last.freed = 0
    /\ everInserted
    /\ tornDown
    /\ root = NULL
    /\ allocated = {}

\* the letters of s in their order, lower-cased
LowerLetters(s) ==
    LET letters == SelectSeq(s, LAMBDA c : (c >= 65 /\ c <= 90) \/ (c >= 97 /\ c <= 122))
    IN  [i \in 1..Len(letters) |->
            IF letters[i] <= 90 THEN letters[i] + 32 ELSE letters[i]]

\* normalize_string is idempotent and yields the lower-cased letters
NormalizeCanonical ==
    \A s \in Strings :
        /\ normalize_string(normalize_string(s)) = normalize_string(s)
        /\ normalize_string(s) = LowerLetters(s)

\* C14: normalize(normalize(s)) = normalize(s), and normalize(s) is the
\* subsequence of the letters of s, in their order, lower-cased; the rule an
\* insert_rule call stores is that subsequence.
C14_NormalizeCanonical ==
    /\ NormalizeCanonical
    /\ (pc = "running" /\ InsertCompleted(last) /\ ~NoLetters(last.arg))
          => LET n == NodeAt(root, LowerLetters(last.arg))
             IN  n /= NULL /\ mem[n].is_end_of_rule = 1

\* C14 witness: insert_rule("1B") has stored the rule "b".
C14_Witness ==
    /\ pc = "running"
    /\ InsertCompleted(last)
    /\ last.arg = <<49, 66>>
    /\ normalize_string(last.arg) = <<98>>
    /\ TerminalSet = {<<98>>}

\* C15: no call other than free_trie clears a terminal flag, releases a node or
\* redirects a pointer of the trie, so a rule that search_rule finds is still
\* found after any init_trie, insert_rule or search_rule call: every rule
\* inserted since the last free_trie is found.
C15_MembershipMonotone ==
    /\ [][(pc' = "running" /\ last'.op /= "free_trie")
            => \/ UNCHANGED <<root, mem, allocated>>
               \/ /\ root /= NULL => root' = root
                  /\ \A a \in allocated :
                        /\ a \in allocated'
                        /\ \/ mem'[a] = mem[a]
                           \/ /\ mem[a].is_end_of_rule = 1
                                    => mem'[a].is_end_of_rule = 1
                              /\ \A i \in Idx :
                                    mem[a].children[i] /= NULL
                                        => mem'[a].children[i] = mem[a].children[i]]_vars
    /\ [](pc = "running" => \A p \in inserted \ {<<>>} : Found(p) = 1)

\* C15 witness: "a" was inserted, then the longer rule "ab" through the node of
\* "a", and both are found.
C15_Witness ==
    /\ pc = "running"
    /\ InsertCompleted(last)
    /\ normalize_string(last.arg) = <<97, 98>>
    /\ TerminalSet = {<<97>>, <<97, 98>>}
    /\ Found(<<97>>) = 1

\* C16: while there is a root, the nodes below it are exactly the non-empty
\* prefixes the walks of insert_rule went through since the root was created,
\* one node per prefix and one path to each node; nodes go only with free_trie.
C16_NodeSet ==
    /\ root = NULL => (allocated = {} /\ walked = {})
    /\ root /= NULL =>
          /\ NodeSet \ {<<>>} = walked
          /\ Cardinality(allocated) = Cardinality(NodeSet)
          /\ \A p, q \in NodeSet : NodeAt(root, p) = NodeAt(root, q) => p = q
          /\ \A p \in inserted : p \in NodeSet

\* C16 witness: the walks of "a" and "B" left the two nodes "a" and "b" under
\* the root, and nothing else.
C16_Witness ==
    /\ pc = "running"
    /\ last.op = "insert_rule"
    /\ walked = {<<97>>, <<98>>}
    /\ NodeSet = {<<>>, <<97>>, <<98>>}
    /\ Cardinality(allocated) = 3

\* C17: insert_rule called right after free_trie creates a root by itself, and
\* the trie then holds the inserted rule and nothing else: search_rule is true
\* for it and false for every rule of another normalization.
C17_ReuseAfterTeardown ==
    [][(last.op = "free_trie" /\ pc' = "running" /\ InsertCompleted(last'))
        => /\ root' /= NULL
           /\ \A s \in Strings : s = last'.arg => Found(s)' = 1
           /\ \A t \in Strings :
                 Found(t)' = 1 => normalize_string(t) = normalize_string(last'.arg)]_vars

\* p is a prefix of n
IsPrefix(p, n) == Len(p) <= Len(n) /\ SubSeq(n, 1, Len(p)) = p

\* C18: an insert_rule call that returns after an allocation failure (the copy
\* or a node) leaves every search result as it was: it changes no flag and no
\* pointer of the nodes that were there, the nodes it created are not terminal,
\* and the searches along the path of its rule return what they returned.
C18_FailedInsertKeepsMembership ==
    [][(pc' = "running" /\ last'.op = "insert_rule" /\ last'.oom /= "no")
        => \/ UNCHANGED <<root, mem>>
           \/ /\ root /= NULL => root' = root
              /\ \A a \in allocated' \ allocated : mem'[a].is_end_of_rule = 0
              /\ \A a \in allocated :
                    /\ a \in allocated'
                    /\ \/ mem'[a] = mem[a]
                       \/ /\ mem'[a].is_end_of_rule = mem[a].is_end_of_rule
                          /\ \A i \in Idx :
                                mem[a].children[i] /= NULL
                                    => mem'[a].children[i] = mem[a].children[i]
              /\ \E n \in {normalize_string(last'.arg)} :
                    \A k \in 0..Len(n) :
                        \A u \in {SubSeq(n, 1, k)} : Found(u)' = Found(u)]_vars

\* C18 witness: insert_rule("aa") created the node of "a" and failed on the
\* next one; neither "a" nor "aa" is found.
C18_Witness ==
    /\ pc = "running"
    /\ last.op = "insert_rule"
    /\ last.arg = <<97, 97>>
    /\ last.oom = "calloc"
    /\ walked = {<<97>>}
    /\ NodeAt(root, <<97>>) /= NULL
    /\ Found(<<97>>) = 0
    /\ Found(<<97, 97>>) = 0


\* every pointer the program holds (the root, the children slots of the live
\* nodes) is NULL or the address of a live node
PointersLive ==
    /\ root /= NULL => root \in allocated
    /\ \A a \in allocated : \A i \in Idx :
          mem[a].children[i] /= NULL => mem[a].children[i] \in allocated

\* C19: no call uses released memory: in every state every pointer held is
\* NULL or points to a live node, so the walks of insert_rule, search_rule and
\* free_trie_node, which start at the root and follow children slots, touch
\* live nodes only; no call of free is made on a cell that is not live (none
\* released twice); free_trie releases each node reachable from the root once,
\* leaves no live node, and clears the root.
C19_NoUseAfterFree ==
    /\ [](PointersLive /\ ~last.fault
            /\ \A p \in NodeSet : NodeAt(root, p) \in allocated)
    /\ [][last'.op = "free_trie"
            => /\ root' = NULL
               /\ allocated' = {}
               /\ last'.freed = Cardinality(allocated)
               /\ last'.freed = Cardinality({NodeAt(root, p) : p \in NodeSet})]_vars

\* C19 witness: free_trie has just released a trie of three nodes, the root
\* and two nodes created by insert_rule
C19_Witness ==
    /\ pc = "running"
    /\ last.op = "free_trie"
    /\ last.freed = 3
    /\ ~last.fault
    /\ dropped /= {}
    /\ root = NULL
    /\ allocated = {}

====
